---- MODULE Spec2Model ----
(***************************************************************************)
(* State-machine model of src/index.js: the TradingView webhook handler,   *)
(* the order placement and flatten routines, the SQLite trade ledger and   *)
(* the exchange client they talk to.                                       *)
(***************************************************************************)
EXTENDS Integers, Sequences, FiniteSets, TLC

\* ---------------------------------------------------------------- bounds
MaxReq == 2          \* webhook deliveries per run
MaxNet == 2          \* largest absolute position size the exchange carries
OrderQuantity == 1   \* process.env.ORDER_QUANTITY
MaxRows == 2         \* rows a ledger-only run inserts

Requests == 1..MaxReq
Symbols == {"BTCUSD", "ETHUSD"}
SymbolOrder == <<"BTCUSD", "ETHUSD">>
NoValue == "undefined"
Prices == {100, 110}
SellPrices == {90, 110}
Quantities == 1..2
Topics == {"notification.create", "other", NoValue}
Recommendations == {"BUY", "SELL", "HOLD"}

VARIABLES
    trades,     \* rows of table trades, in insertion order
    pending,    \* statements handed to db.run whose callback has not run yet
    ledgerOp,   \* outcome of the last ledger statement or query
    net,        \* exchange: signed position size per symbol (>0 Buy, <0 Sell)
    entry,      \* exchange: entry price of the position per symbol
    req,        \* one record per webhook delivery (handler invocation)
    proc,       \* the process: running, its shutdown steps, exited
    telegram    \* settled sendTelegramMessage calls: delivered and failed

vars == <<trades, pending, ledgerOp, net, entry, req, proc, telegram>>

\* ---------------------------------------------------------------- ledger
NoOp == [op |-> "none"]

\* CREATE TABLE trades: id AUTOINCREMENT, status DEFAULT 'Open'
NewRow(symbol, side, qty, price) ==
    [id |-> Len(trades) + 1, symbol |-> symbol, side |-> side, qty |-> qty,
     price |-> price, status |-> "Open"]

insertTrade_Swapped(symbol, side, qty, price) ==
    Append(pending, [op |-> "insert", symbol |-> symbol, side |-> side,
                     qty |-> price, price |-> qty])

\* insertTrade: hands the INSERT to db.run and returns at once
insertTrade(symbol, side, qty, price) ==
    Append(pending, [op |-> "insert", symbol |-> symbol, side |-> side,
                     qty |-> qty, price |-> price])

\* updateTradeStatus: hands the UPDATE to db.run and returns at once
updateTradeStatus(id) ==
    Append(pending, [op |-> "update", id |-> id])

HasRow(id) == id \in 1..Len(trades)

CloseRow_NoWhere(id) ==
    [i \in 1..Len(trades) |-> [trades[i] EXCEPT !.status = "Closed"]]

\* UPDATE trades SET status = 'Closed' WHERE id = ?
CloseRow(id) ==
    [i \in 1..Len(trades) |->
        IF trades[i].id = id THEN [trades[i] EXCEPT !.status = "Closed"]
        ELSE trades[i]]

\* the arithmetic of calculateProfitLoss on a fetched row
ProfitLoss_SignSlip(row, sellPrice) ==
    (sellPrice - row.price) * row.qty

ProfitLoss(row, sellPrice) ==
    IF row.side = "Buy" THEN (sellPrice - row.price) * row.qty
    ELSE (row.price - sellPrice) * row.qty

\* calculateProfitLoss: the promise's settlement for a db.get outcome
calculateProfitLoss(id, sellPrice, dbErr) ==
    IF dbErr THEN [kind |-> "rejected", error |-> "SQLITE_ERROR", value |-> 0]
    ELSE IF ~HasRow(id)
        THEN [kind |-> "rejected", error |-> "Trade not found in database.", value |-> 0]
        ELSE [kind |-> "resolved", error |-> NoValue,
              value |-> ProfitLoss(trades[id], sellPrice)]

RemoveAt(s, i) == [j \in 1..(Len(s) - 1) |-> IF j < i THEN s[j] ELSE s[j + 1]]

\* the err argument sqlite3 hands to a callback
DbError(dbErr) == IF dbErr THEN "SQLITE_ERROR" ELSE NoValue

\* sqlite3 runs one queued statement and calls its callback, which only logs
DbRun(i, dbErr) ==
    /\ i \in 1..Len(pending)
    /\ LET st == pending[i] IN
        /\ pending' = RemoveAt(pending, i)
        /\ IF st.op = "insert"
            THEN /\ trades' = IF dbErr THEN trades
                              ELSE Append(trades, NewRow(st.symbol, st.side, st.qty, st.price))
                 /\ ledgerOp' = [op |-> "insert", error |-> DbError(dbErr)]
            ELSE /\ trades' = IF dbErr THEN trades ELSE CloseRow(st.id)
                 /\ ledgerOp' = [op |-> "update", id |-> st.id, error |-> DbError(dbErr),
                                 existed |-> HasRow(st.id),
                                 wasClosed |-> HasRow(st.id) /\ trades[st.id].status = "Closed"]
    /\ UNCHANGED <<net, entry, req, proc, telegram>>

\* -------------------------------------------------------------- exchange
Abs(n) == IF n < 0 THEN -n ELSE n

PositionSide(n) == IF n > 0 THEN "Buy" ELSE IF n < 0 THEN "Sell" ELSE "None"

PositionId(symbol) == CHOOSE i \in 1..Len(SymbolOrder) : SymbolOrder[i] = symbol

\* bybitClient.positionList(): positions.result, one entry per symbol
positionList ==
    [i \in 1..Len(SymbolOrder) |->
        LET s == SymbolOrder[i] IN
        [id |-> PositionId(s), symbol |-> s, side |-> PositionSide(net[s]),
         size |-> Abs(net[s]), entry_price |-> entry[s]]]

\* position sizes the account may hold when the process starts
InitialNets == {-MaxNet, 0, 1}

Delta(side, qty) == IF side = "Buy" THEN qty ELSE -qty

\* whether the exchange can fill a market order
CanFill(symbol, side, qty) ==
    /\ symbol \in Symbols
    /\ qty > 0
    /\ Abs(net[symbol] + Delta(side, qty)) <= MaxNet

\* the exchange's positions after filling a market order at price
FillNet(symbol, side, qty) ==
    [net EXCEPT ![symbol] = @ + Delta(side, qty)]

FillEntry(symbol, side, qty, price) ==
    LET old == net[symbol]
        new == old + Delta(side, qty)
    IN  [entry EXCEPT ![symbol] =
            IF new = 0 THEN 100
            ELSE IF PositionSide(new) = PositionSide(old) /\ Abs(new) < Abs(old) THEN @
            ELSE price]

\* --------------------------------------------------------------- handler
NoBody == [topic |-> NoValue, hasData |-> FALSE, symbol |-> NoValue,
           recommendation |-> NoValue]

\* The payloads delivered. A field the handler never reads on the path a
\* payload takes (the symbol of a signal that is not BUY, the data of an
\* unrecognized topic) is given one representative value.
Bodies ==
    {b \in [topic : Topics, hasData : BOOLEAN, symbol : Symbols \cup {NoValue},
            recommendation : Recommendations \cup {NoValue}] :
        /\ ~b.hasData => (b.symbol = NoValue /\ b.recommendation = NoValue)
        /\ b.hasData => b.recommendation # NoValue
        /\ b.topic = NoValue => ~b.hasData
        /\ (b.hasData /\ b.recommendation # "BUY") => b.symbol = "BTCUSD"
        /\ (b.hasData /\ b.topic = "other") =>
              (b.symbol = "BTCUSD" /\ b.recommendation \in {"BUY", "SELL"})}

InitReq ==
    [pc |-> "idle", body |-> NoBody, dup |-> FALSE, positions |-> <<>>, idx |-> 0,
     orders |-> <<>>, insertCalls |-> 0, pnl |-> <<>>, listCalls |-> 0,
     notified |-> 0, status |-> 0, responses |-> 0]

\* data.topic === 'notification.create'
IsRecognized_AnyTopic(topic) == TRUE

IsRecognized(topic) == topic = "notification.create"

\* signal.recommendation === 'BUY' ? 'Buy' : 'Sell'
SideOf_AlwaysSell(recommendation) == "Sell"

SideOf(recommendation) == IF recommendation = "BUY" THEN "Buy" ELSE "Sell"

\* the closing side chosen in closeAllPositions
ClosingSide_Same(side) == side

ClosingSide(side) == IF side = "Buy" THEN "Sell" ELSE "Buy"

\* res.sendStatus(code): the handler is finished
sendStatus(q, code) ==
    [q EXCEPT !.pc = "done", !.status = code, !.responses = @ + 1]

\* sendTelegramMessage(...) called from a catch block
sendTelegramMessage(q) == [q EXCEPT !.notified = @ + 1]

\* placeOrder up to its await: the order is submitted to the exchange
placeOrder(q, symbol, side, qty) ==
    [q EXCEPT !.pc = "order",
              !.orders = Append(@, [symbol |-> symbol, side |-> side, qty |-> qty,
                                    res |-> "pending", price |-> 0])]

\* the for loop of closeAllPositions from position k up to its next await
RECURSIVE closeLoop(_, _)
closeLoop(q, k) ==
    IF k > Len(q.positions) THEN sendStatus(q, 200)
    ELSE LET p == q.positions[k] IN
         IF p.side \in {"Buy", "Sell"}
         THEN placeOrder([q EXCEPT !.idx = k], p.symbol, ClosingSide(p.side), p.size)
         ELSE closeLoop(q, k + 1)

\* closeAllPositions up to its await of positionList
closeAllPositions(q) == [q EXCEPT !.pc = "list", !.listCalls = @ + 1]

\* catch block of closeAllPositions, then catch block of the handler
closeAllPositionsCatch_Silent(q) == sendStatus(q, 500)

closeAllPositionsCatch(q) == sendStatus(sendTelegramMessage(q), 500)

placeOrderCatch_Continue(q) ==
    LET q1 == sendTelegramMessage(q) IN
    IF q.listCalls > 0 THEN closeLoop(q1, q.idx + 1) ELSE sendStatus(q1, 500)

placeOrderCatch_NoAnswer(q) == [sendTelegramMessage(q) EXCEPT !.pc = "done"]

\* catch block of placeOrder; the rethrown error reaches the caller's catch
placeOrderCatch(q) ==
    LET q1 == sendTelegramMessage(q) IN
    IF q.listCalls > 0 THEN closeAllPositionsCatch(q1) ELSE sendStatus(q1, 500)

\* handleTradingViewWebhook up to its first await or its response
handleTradingViewWebhook(q) ==
    IF ~IsRecognized(q.body.topic) THEN sendStatus(q, 400)
    ELSE IF ~q.body.hasData THEN sendStatus(q, 500)
    ELSE IF SideOf(q.body.recommendation) = "Buy"
         THEN placeOrder(q, q.body.symbol, "Buy", OrderQuantity)
         ELSE closeAllPositions(q)

\* a webhook delivery arrives; dup marks a redelivery of the preceding signal
Webhook(r, b, dup) ==
    /\ req[r].pc = "idle"
    /\ r > 1 => req[r - 1].pc # "idle"
    /\ dup => (r > 1 /\ b = req[r - 1].body)
    /\ req' = [req EXCEPT ![r] =
                 handleTradingViewWebhook([req[r] EXCEPT !.body = b, !.dup = dup])]
    /\ UNCHANGED <<trades, pending, ledgerOp, net, entry, proc, telegram>>

SetLast(q, res, price) ==
    [q EXCEPT !.orders[Len(q.orders)] = [@ EXCEPT !.res = res, !.price = price]]

\* orderCreate resolves: the fill is recorded and the caller continues
OrderConfirmed(r, price) ==
    LET q == req[r]
        o == q.orders[Len(q.orders)]
        q1 == [SetLast(q, "ok", price) EXCEPT !.insertCalls = @ + 1]
    IN  /\ q.pc = "order"
        /\ CanFill(o.symbol, o.side, o.qty)
        /\ net' = FillNet(o.symbol, o.side, o.qty)
        /\ entry' = FillEntry(o.symbol, o.side, o.qty, price)
        /\ pending' = insertTrade(o.symbol, o.side, o.qty, price)
        /\ req' = [req EXCEPT ![r] =
                     IF q.listCalls = 0 THEN sendStatus(q1, 200)
                     ELSE IF q.positions[q.idx].side = "Buy" THEN closeLoop(q1, q.idx + 1)
                     ELSE [q1 EXCEPT !.pc = "pnl"]]
        /\ UNCHANGED <<trades, ledgerOp, proc, telegram>>

\* orderCreate rejects: business rejection or transport failure
OrderFailed(r, kind) ==
    LET q == req[r] IN
        /\ q.pc = "order"
        /\ req' = [req EXCEPT ![r] = placeOrderCatch(SetLast(q, kind, 0))]
        /\ UNCHANGED <<trades, pending, ledgerOp, net, entry, proc, telegram>>

\* positionList resolves: the loop starts on the snapshot
PositionsListed(r) ==
    /\ req[r].pc = "list"
    /\ req' = [req EXCEPT ![r] = closeLoop([req[r] EXCEPT !.positions = positionList], 1)]
    /\ UNCHANGED <<trades, pending, ledgerOp, net, entry, proc, telegram>>

\* positionList rejects
PositionsFailed(r) ==
    /\ req[r].pc = "list"
    /\ req' = [req EXCEPT ![r] = closeAllPositionsCatch(req[r])]
    /\ UNCHANGED <<trades, pending, ledgerOp, net, entry, proc, telegram>>

\* calculateProfitLoss(id, entry_price) settles inside the loop
ProfitLossSettled(r, dbErr) ==
    LET q == req[r]
        p == q.positions[q.idx]
        out == calculateProfitLoss(p.id, p.entry_price, dbErr)
        q1 == [q EXCEPT !.pnl = Append(@, [id |-> p.id, sellPrice |-> p.entry_price,
                                           kind |-> out.kind, value |-> out.value])]
    IN  /\ q.pc = "pnl"
        /\ req' = [req EXCEPT ![r] =
                     IF out.kind = "resolved" THEN closeLoop(q1, q.idx + 1)
                     ELSE closeAllPositionsCatch(q1)]
        /\ UNCHANGED <<trades, pending, ledgerOp, net, entry, proc, telegram>>

\* ------------------------------------------------------ the specification
Init ==
    /\ trades = <<>>
    /\ pending = <<>>
    /\ ledgerOp = NoOp
    /\ net \in [Symbols -> InitialNets]
    /\ entry = [s \in Symbols |-> 100]
    /\ req = [r \in Requests |-> InitReq]
    /\ proc = "running"
    /\ telegram = [delivered |-> 0, failed |-> 0]

Next ==
    \/ \E r \in Requests, b \in Bodies, dup \in BOOLEAN : Webhook(r, b, dup)
    \/ \E r \in Requests, price \in Prices : OrderConfirmed(r, price)
    \/ \E r \in Requests, kind \in {"rejected", "unavailable"} : OrderFailed(r, kind)
    \/ \E r \in Requests : PositionsListed(r)
    \/ \E r \in Requests : PositionsFailed(r)
    \/ \E r \in Requests, dbErr \in BOOLEAN : ProfitLossSettled(r, dbErr)
    \/ \E i \in 1..MaxReq * 2, dbErr \in BOOLEAN : DbRun(i, dbErr)

Spec == Init /\ [][Next]_vars

\* ------------------------------------------- the ledger functions alone
\* The three ledger functions called directly, one statement at a time, with
\* arguments drawn from bounded sets (updateTradeStatus has no caller in
\* index.js). No ledger function reads the symbol, so one symbol is stored.
InitLedger ==
    /\ trades = <<>>
    /\ pending = <<>>
    /\ ledgerOp = NoOp
    /\ net = [s \in Symbols |-> 0]
    /\ entry = [s \in Symbols |-> 100]
    /\ req = [r \in Requests |-> InitReq]
    /\ proc = "running"
    /\ telegram = [delivered |-> 0, failed |-> 0]

CallInsertTrade(symbol, side, qty, price) ==
    /\ Len(trades) < MaxRows
    /\ pending = <<>>
    /\ pending' = insertTrade(symbol, side, qty, price)
    /\ UNCHANGED <<trades, ledgerOp, net, entry, req, proc, telegram>>

CallUpdateTradeStatus(id) ==
    /\ pending = <<>>
    /\ pending' = updateTradeStatus(id)
    /\ UNCHANGED <<trades, ledgerOp, net, entry, req, proc, telegram>>

CallCalculateProfitLoss(id, sellPrice, dbErr) ==
    /\ pending = <<>>
    /\ ledgerOp' = [op |-> "pnl", id |-> id, sellPrice |-> sellPrice,
                    dbErr |-> dbErr, out |-> calculateProfitLoss(id, sellPrice, dbErr)]
    /\ UNCHANGED <<trades, pending, net, entry, req, proc, telegram>>

NextLedger ==
    \/ \E side \in {"Buy", "Sell"}, qty \in Quantities, price \in Prices :
            CallInsertTrade(SymbolOrder[1], side, qty, price)
    \/ \E id \in 1..(MaxRows + 1) : CallUpdateTradeStatus(id)
    \/ \E id \in 1..(MaxRows + 1), sellPrice \in SellPrices, dbErr \in BOOLEAN :
            CallCalculateProfitLoss(id, sellPrice, dbErr)
    \/ \E dbErr \in BOOLEAN : DbRun(1, dbErr)

LedgerSpec == InitLedger /\ [][NextLedger]_vars

\* ------------------------------------- process lifecycle and the notifier
InFlight(r) == req[r].pc \notin {"idle", "done"}

RECURSIVE NotifiedUpTo(_)
NotifiedUpTo(n) == IF n = 0 THEN 0 ELSE req[n].notified + NotifiedUpTo(n - 1)

\* sendTelegramMessage calls whose sendMessage promise has not settled
Unsettled == NotifiedUpTo(MaxReq) - telegram.delivered - telegram.failed

\* the one exchange account state the process runs start from
InitProcess ==
    /\ Init
    /\ net = [s \in Symbols |-> IF s = SymbolOrder[1] THEN 0 ELSE -MaxNet]

\* the server hands a request to the handler only while it is listening
Accept(r, b, dup) ==
    /\ proc = "running"
    /\ Webhook(r, b, dup)

\* process.on('SIGINT'): server.close(callback) stops the listener
Sigint ==
    /\ proc = "running"
    /\ proc' = "closing"
    /\ UNCHANGED <<trades, pending, ledgerOp, net, entry, req, telegram>>

\* the callback of server.close runs once no request is in flight: db.close
ServerClosed ==
    /\ proc = "closing"
    /\ \A r \in Requests : ~InFlight(r)
    /\ proc' = "dbclosing"
    /\ UNCHANGED <<trades, pending, ledgerOp, net, entry, req, telegram>>

\* the callback of db.close: process.exit(0) only in the else branch
dbCloseCallback(dbErr) == IF dbErr THEN "closeFailed" ELSE "exited"

\* db.close completes after the queued statements and calls its callback
DbClosed(dbErr) ==
    /\ proc = "dbclosing"
    /\ pending = <<>>
    /\ proc' = dbCloseCallback(dbErr)
    /\ UNCHANGED <<trades, pending, ledgerOp, net, entry, req, telegram>>

\* what the settlement of sendMessage does to the process: the catch block
\* of sendTelegramMessage logs a failure, nothing else
telegramCatch_Unhandled(ok) == IF ok THEN proc ELSE "crashed"

telegramCatch(ok) == proc

\* bot.telegram.sendMessage settles for one sendTelegramMessage call
TelegramSettled(ok) ==
    /\ proc \notin {"exited", "crashed"}
    /\ Unsettled > 0
    /\ telegram' = IF ok THEN [telegram EXCEPT !.delivered = @ + 1]
                   ELSE [telegram EXCEPT !.failed = @ + 1]
    /\ proc' = telegramCatch(ok)
    /\ UNCHANGED <<trades, pending, ledgerOp, net, entry, req>>

ShutdownStep ==
    \/ ServerClosed
    \/ \E dbErr \in BOOLEAN : DbClosed(dbErr)

\* the handlers together with the SIGINT handler and its callbacks
NextShutdown ==
    \/ \E r \in Requests, b \in Bodies, dup \in BOOLEAN : Accept(r, b, dup)
    \/ \E r \in Requests, price \in Prices : OrderConfirmed(r, price)
    \/ \E r \in Requests, kind \in {"rejected", "unavailable"} : OrderFailed(r, kind)
    \/ \E r \in Requests : PositionsListed(r)
    \/ \E r \in Requests : PositionsFailed(r)
    \/ \E r \in Requests, dbErr \in BOOLEAN : ProfitLossSettled(r, dbErr)
    \/ \E i \in 1..MaxReq * 2, dbErr \in BOOLEAN : DbRun(i, dbErr)
    \/ Sigint
    \/ ServerClosed
    \/ \E dbErr \in BOOLEAN : DbClosed(dbErr)

ShutdownSpec == InitProcess /\ [][NextShutdown]_vars

\* the handlers together with the settlement of the notifications
NextNotifier ==
    \/ \E r \in Requests, b \in Bodies, dup \in BOOLEAN : Webhook(r, b, dup)
    \/ \E r \in Requests, price \in Prices : OrderConfirmed(r, price)
    \/ \E r \in Requests, kind \in {"rejected", "unavailable"} : OrderFailed(r, kind)
    \/ \E r \in Requests : PositionsListed(r)
    \/ \E r \in Requests : PositionsFailed(r)
    \/ \E r \in Requests, dbErr \in BOOLEAN : ProfitLossSettled(r, dbErr)
    \/ \E i \in 1..MaxReq * 2, dbErr \in BOOLEAN : DbRun(i, dbErr)
    \/ \E ok \in BOOLEAN : TelegramSettled(ok)

NotifierSpec == InitProcess /\ [][NextNotifier]_vars

\* ------------------------------------------------------------ properties
Done(r) == req[r].pc = "done"

Arrived(r) == req[r].pc # "idle"

Last(seq) == seq[Len(seq)]

ConfirmedOrders(q) == {i \in 1..Len(q.orders) : q.orders[i].res = "ok"}

RECURSIVE ConfirmedUpTo(_)
ConfirmedUpTo(n) ==
    IF n = 0 THEN 0 ELSE Cardinality(ConfirmedOrders(req[n])) + ConfirmedUpTo(n - 1)

Quiescent == pending = <<>> /\ \A r \in Requests : req[r].pc \in {"idle", "done"}

ValidBuy(b) ==
    /\ b.topic = "notification.create"
    /\ b.hasData
    /\ b.recommendation = "BUY"
    /\ b.symbol \in Symbols

IsOpen(p) == p.side \in {"Buy", "Sell"}

OpenPositions(ps) == SelectSeq(ps, IsOpen)

\* deliveries a and b carry the same signal: b is a chain of redeliveries of a
SameSignal(a, b) == a < b /\ \A k \in (a + 1)..b : req[k].dup

\* order j of request q closes the j-th open position of its snapshot
ClosesPosition(o, p) ==
    /\ o.symbol = p.symbol
    /\ o.qty = p.size
    /\ p.side = "Buy" => o.side = "Sell"
    /\ p.side = "Sell" => o.side = "Buy"

\* C1: once every handler has answered and every queued statement has run, the
\* ledger holds exactly one row per order the exchange confirmed.
C1_RowPerConfirmedOrder ==
    Quiescent => Len(trades) = ConfirmedUpTo(MaxReq)

\* C2: the deliveries of one BUY signal (a delivery and its redeliveries)
\* place at most one order on the exchange between them.
C2_OneOrderPerSignal ==
    \A a, b \in Requests :
        (SameSignal(a, b) /\ ValidBuy(req[a].body)) =>
            Len(req[a].orders) + Len(req[b].orders) <= 1

\* C3: a close statement on a row that is already Closed reports
\* AlreadyClosedError, and one on an id without a row reports NotFoundError.
C3_MarkClosedErrors ==
    ledgerOp.op = "update" =>
        /\ ledgerOp.wasClosed => ledgerOp.error = "AlreadyClosedError"
        /\ ~ledgerOp.existed => ledgerOp.error = "NotFoundError"

\* C3 (the part the code keeps): a row that is Closed stays Closed.
C3_ClosedStaysClosed ==
    [][\A i \in 1..Len(trades) :
          trades[i].status = "Closed" =>
              (i <= Len(trades') /\ trades'[i].status = "Closed")]_vars

\* C4: the profit/loss of a stored trade is (exit - entry) * qty for a Buy row
\* and (entry - exit) * qty for a Sell row (Buy/100/110/2 = 20, Sell/100/90/2 =
\* 20, Sell/100/110/2 = -20); for an id without a row the computation is
\* rejected with the not-found error.
C4_ProfitLoss ==
    ledgerOp.op = "pnl" /\ ~ledgerOp.dbErr =>
        LET x == ledgerOp.sellPrice
            out == ledgerOp.out
        IN  IF \E i \in 1..Len(trades) : trades[i].id = ledgerOp.id
            THEN LET row == trades[CHOOSE i \in 1..Len(trades) : trades[i].id = ledgerOp.id]
                 IN  /\ out.kind = "resolved"
                     /\ row.side = "Buy" => out.value = (x - row.price) * row.qty
                     /\ row.side = "Sell" => out.value = (row.price - x) * row.qty
                     /\ (row.side = "Buy" /\ row.price = 100 /\ x = 110 /\ row.qty = 2)
                            => out.value = 20
                     /\ (row.side = "Sell" /\ row.price = 100 /\ x = 90 /\ row.qty = 2)
                            => out.value = 20
                     /\ (row.side = "Sell" /\ row.price = 100 /\ x = 110 /\ row.qty = 2)
                            => out.value = -20
            ELSE /\ out.kind = "rejected"
                 /\ out.error = "Trade not found in database."

C4_Witness ==
    /\ ledgerOp.op = "pnl"
    /\ ledgerOp.out.kind = "resolved"
    /\ ledgerOp.sellPrice = 110
    /\ ledgerOp.out.value = -20
    /\ trades[ledgerOp.id].side = "Sell"
    /\ trades[ledgerOp.id].qty = 2

\* C5: a recognized BUY signal for symbol S submits exactly one order
\* (S, Buy, configured quantity), lists no positions and computes no
\* profit/loss; when the exchange confirms it the handler hands exactly one
\* insert to the ledger, notifies nobody and answers 200.
C5_BuySignal ==
    \A r \in Requests :
        LET q == req[r] IN
        (Arrived(r) /\ ValidBuy(q.body)) =>
            /\ Len(q.orders) = 1
            /\ q.orders[1].symbol = q.body.symbol
            /\ q.orders[1].side = "Buy"
            /\ q.orders[1].qty = OrderQuantity
            /\ q.listCalls = 0
            /\ q.pnl = <<>>
            /\ q.orders[1].res = "ok" =>
                  (q.insertCalls = 1 /\ q.status = 200 /\ q.notified = 0)
            /\ q.orders[1].res # "ok" => q.insertCalls = 0
            /\ q.status = 200 => q.orders[1].res = "ok"

C5_Witness ==
    \E r \in Requests :
        /\ ValidBuy(req[r].body)
        /\ req[r].status = 200
        /\ req[r].insertCalls = 1
        /\ req[r].orders[1].res = "ok"

C7_ProfitLossPerClose ==
    \A r \in Requests :
        LET q == req[r]
            open == OpenPositions(q.positions)
        IN  (/\ Done(r)
             /\ q.body.topic = "notification.create"
             /\ q.body.recommendation = "SELL"
             /\ q.positions # <<>>
             /\ Len(q.orders) = Len(open)
             /\ \A j \in 1..Len(q.orders) : q.orders[j].res = "ok") =>
              /\ Len(q.pnl) = Len(q.orders)
              /\ q.status = 200

\* C8: a delivery whose topic is not notification.create is answered 400 at
\* once and submits no order, lists no positions, hands nothing to the ledger,
\* computes no profit/loss and notifies nobody.
C8_UnrecognizedTopic ==
    \A r \in Requests :
        LET q == req[r] IN
        (Arrived(r) /\ q.body.topic # "notification.create") =>
            /\ Done(r)
            /\ q.status = 400
            /\ q.orders = <<>>
            /\ q.listCalls = 0
            /\ q.insertCalls = 0
            /\ q.pnl = <<>>
            /\ q.notified = 0

C8_Witness ==
    \E r \in Requests :
        /\ req[r].status = 400
        /\ req[r].body.topic = "other"
        /\ req[r].body.recommendation = "BUY"
        /\ req[r].body.symbol \in Symbols

\* C9: a recognized delivery without a parseable symbol and direction is
\* answered 400 and neither places an order nor starts a flatten.
C9_InvalidSignalRejected ==
    \A r \in Requests :
        LET q == req[r] IN
        (/\ Done(r)
         /\ q.body.topic = "notification.create"
         /\ \/ ~q.body.hasData
            \/ q.body.recommendation \notin {"BUY", "SELL"}
            \/ q.body.symbol \notin Symbols) =>
            /\ q.status = 400
            /\ q.orders = <<>>
            /\ q.listCalls = 0

\* C10: an order whose submission ended in a transport failure was submitted
\* again at least once before the failure was surfaced; the failure is then
\* notified, answered 500 and leaves no insert for that order.
C10_TransportFailureRetried ==
    \A r \in Requests :
        LET q == req[r] IN
        (Done(r) /\ q.orders # <<>> /\ Last(q.orders).res = "unavailable") =>
            /\ Cardinality({i \in 1..Len(q.orders) :
                   /\ q.orders[i].symbol = Last(q.orders).symbol
                   /\ q.orders[i].side = Last(q.orders).side
                   /\ q.orders[i].qty = Last(q.orders).qty}) >= 2
            /\ q.status = 500
            /\ q.notified >= 1
            /\ q.insertCalls = Cardinality(ConfirmedOrders(q))


\* the dispatched operation of request q raised an error
OrderRaised(q) == q.orders # <<>> /\ Last(q.orders).res \in {"rejected", "unavailable"}

ListingRaised(q) == q.pc = "done" /\ q.listCalls > 0 /\ q.positions = <<>>

LookupRaised(q) == q.pnl # <<>> /\ Last(q.pnl).kind = "rejected"

\* C11: when the order, the position listing or the profit/loss lookup of a
\* signal raises, the notifier is called, the answer is 500 and nothing is
\* submitted again: the failed order is the last order of the signal, at most
\* one order of the signal failed, and no two orders of the signal are for
\* the same symbol.
C11_FailureNotRetried ==
    \A r \in Requests :
        LET q == req[r] IN
        (OrderRaised(q) \/ ListingRaised(q) \/ LookupRaised(q)) =>
            /\ Done(r)
            /\ q.status = 500
            /\ q.notified >= 1
            /\ \A i \in 1..Len(q.orders) :
                  q.orders[i].res \in {"rejected", "unavailable"} => i = Len(q.orders)
            /\ \A i, j \in 1..Len(q.orders) :
                  i # j => q.orders[i].symbol # q.orders[j].symbol
            /\ q.listCalls <= 1

C11_Witness ==
    \E r \in Requests :
        /\ req[r].status = 500
        /\ Len(req[r].orders) = 2
        /\ req[r].orders[1].res = "ok"
        /\ req[r].orders[2].res = "rejected"
        /\ req[r].notified = 2


\* C12: when an insert failed for an order of request r (r is the only request
\* with confirmed orders and the ledger holds fewer rows than r has confirmed
\* orders once everything has run), the failure was escalated: the notifier
\* was called for r and r was not answered 200.
C12_InsertFailureEscalated ==
    \A r \in Requests :
        (/\ Quiescent
         /\ \A o \in Requests \ {r} : ConfirmedOrders(req[o]) = {}
         /\ Len(trades) < Cardinality(ConfirmedOrders(req[r]))) =>
            /\ req[r].notified >= 1
            /\ req[r].status # 200


\* request r has an order for symbol s outstanding at the exchange
Outstanding(r, s) ==
    /\ req[r].pc = "order"
    /\ Last(req[r].orders).symbol = s

\* C13: a BUY order for a symbol and a close order of a flatten for the same
\* symbol are never outstanding at the exchange at the same time.
C13_SerializedPerSymbol ==
    \A a, b \in Requests, s \in Symbols :
        ~(/\ a # b
          /\ Outstanding(a, s)
          /\ Outstanding(b, s)
          /\ req[a].listCalls = 0
          /\ req[b].listCalls > 0)


\* a step that brings a started shutdown forward: a handler in flight moves,
\* a queued statement runs, or a shutdown callback runs
ShutdownProgress ==
    \/ \E r \in Requests, price \in Prices : OrderConfirmed(r, price)
    \/ \E r \in Requests, kind \in {"rejected", "unavailable"} : OrderFailed(r, kind)
    \/ \E r \in Requests : PositionsListed(r)
    \/ \E r \in Requests : PositionsFailed(r)
    \/ \E r \in Requests, dbErr \in BOOLEAN : ProfitLossSettled(r, dbErr)
    \/ \E i \in 1..MaxReq * 2, dbErr \in BOOLEAN : DbRun(i, dbErr)
    \/ ShutdownStep

\* C14: after SIGINT the process exits in every run: as long as it has not
\* exited, some step of the shutdown can still be taken.
C14_ExitsOrProgresses ==
    proc # "running" => (proc = "exited" \/ ENABLED ShutdownProgress)

\* C14 (the part the code keeps): the store is closed only after the server
\* has stopped with no request in flight, and the process exits only after
\* the store was closed.
C14_ShutdownOrder ==
    [][proc' # proc =>
          /\ proc' = "dbclosing" =>
                (proc = "closing" /\ \A r \in Requests : ~InFlight(r))
          /\ proc' \in {"exited", "closeFailed"} =>
                (proc = "dbclosing" /\ pending = <<>>)]_vars


\* what a row, a queued insert and a confirmation have in common
Fill(x) == <<x.symbol, x.side, x.qty, x.price>>

StoredFills(t) ==
    Cardinality({i \in 1..Len(trades) : Fill(trades[i]) = t})
    + Cardinality({i \in 1..Len(pending) :
                      pending[i].op = "insert" /\ Fill(pending[i]) = t})

ConfirmedFills(t) ==
    Cardinality({c \in UNION {{<<r, i>> : i \in ConfirmedOrders(req[r])} : r \in Requests} :
                    Fill(req[c[1]].orders[c[2]]) = t})

\* C15: every row and every queued insert carries the symbol, side, quantity
\* and fill price of an order the exchange has confirmed, and there are never
\* more of them than confirmations with those values: an order that failed
\* or is still outstanding has no row.
C15_RowOnlyAfterConfirmation ==
    /\ \A i \in 1..Len(trades) :
          StoredFills(Fill(trades[i])) <= ConfirmedFills(Fill(trades[i]))
    /\ \A i \in 1..Len(pending) :
          pending[i].op = "insert" =>
              StoredFills(Fill(pending[i])) <= ConfirmedFills(Fill(pending[i]))

C15_Witness ==
    /\ Len(trades) = 2
    /\ trades[1].price = 110
    /\ trades[2].price = 100
    /\ \E r \in Requests : OrderRaised(req[r])


\* request b confirmed a close order for the Buy position on symbol s that the
\* BUY signal of request a opened: the position b listed carries the fill
\* price of a's order, which differs from the entry price the account started
\* with, so b listed the positions after a's order was confirmed
ClosedPositionOf(a, b, s) ==
    LET qa == req[a]
        qb == req[b]
        open == OpenPositions(qb.positions)
    IN  /\ ValidBuy(qa.body)
        /\ qa.body.symbol = s
        /\ qa.orders[1].res = "ok"
        /\ qa.orders[1].price # 100
        /\ qb.listCalls > 0
        /\ \E j \in ConfirmedOrders(qb) :
              /\ open[j].symbol = s
              /\ open[j].side = "Buy"
              /\ open[j].entry_price = qa.orders[1].price

\* C16: once a flatten has confirmed the close order for a position and
\* everything has run, the ledger trade that opened the position is Closed.
C16_OpeningTradeClosed ==
    \A a, b \in Requests, s \in Symbols :
        (Quiescent /\ ClosedPositionOf(a, b, s)) =>
            \A i \in 1..Len(trades) :
                (/\ trades[i].symbol = s
                 /\ trades[i].side = "Buy"
                 /\ trades[i].price = req[a].orders[1].price) =>
                    trades[i].status = "Closed"


\* C17: the notifier is best-effort. The handler has answered 500 in the very
\* step that calls the notifier, whether or not any notification has settled;
\* and the settlement of a notification, delivered or failed, changes nothing
\* but the notifier's own tally: no request, order, ledger row, queued
\* statement or process state.
C17_NotifierBestEffort ==
    /\ [](\A r \in Requests :
             req[r].notified > 0 => (Done(r) /\ req[r].status = 500))
    /\ [][telegram' # telegram =>
             UNCHANGED <<trades, pending, ledgerOp, net, entry, req, proc>>]_vars

C17_Witness ==
    /\ telegram.failed = 1
    /\ Unsettled = 1
    /\ \E r \in Requests :
          /\ req[r].status = 500
          /\ req[r].notified = 2
          /\ Len(req[r].orders) = 1


\* C18: ids are unique and strictly increasing in insertion order; no step
\* removes a row or changes a stored symbol, side, quantity or entry price; a
\* row changes only when an UPDATE for its own id has just run, and then only
\* its status, to Closed.
C18_LedgerFrame ==
    /\ [](\A i, j \in 1..Len(trades) : i < j => trades[i].id < trades[j].id)
    /\ [][/\ Len(trades') >= Len(trades)
          /\ \A i \in 1..Len(trades) :
                trades'[i] # trades[i] =>
                    /\ ledgerOp'.op = "update"
                    /\ ledgerOp'.id = trades[i].id
                    /\ trades'[i] = [trades[i] EXCEPT !.status = "Closed"]]_vars

C18_Witness ==
    /\ Len(trades) = 2
    /\ trades[1].status = "Open"
    /\ trades[2].status = "Closed"
    /\ ledgerOp.op = "update"
    /\ ledgerOp.id = 2


\* C19: a handler sends at most one response, it has finished exactly when it
\* has sent one, the status sent is 200, 400 or 500, and 200 is sent only
\* when every order submitted for the signal has been confirmed.
C19_OneResponse ==
    \A r \in Requests :
        LET q == req[r] IN
        /\ q.responses <= 1
        /\ Done(r) <=> q.responses = 1
        /\ q.responses = 1 => q.status \in {200, 400, 500}
        /\ q.responses = 0 => q.status = 0
        /\ q.status = 200 => \A i \in 1..Len(q.orders) : q.orders[i].res = "ok"

C19_Witness ==
    \E a, b \in Requests :
        /\ req[a].status = 500
        /\ req[a].responses = 1
        /\ OrderRaised(req[a])
        /\ req[b].status = 200
        /\ req[b].responses = 1
        /\ Len(req[b].orders) = 2


\* C20: a flatten works through the listed positions one at a time and stops
\* at the first failure. Only its last order can be outstanding or failed and
\* only its last profit/loss lookup can be rejected; when an order or a
\* lookup has failed the handler has answered 500, the orders before the
\* failure are confirmed and each was handed to the ledger once, and no order
\* exists for a later position; positions are left without an order only by
\* such a failure.
C20_StopsAtFirstFailure ==
    \A r \in Requests :
        LET q == req[r]
            open == OpenPositions(q.positions)
            failedOrders == IF OrderRaised(q) THEN 1 ELSE 0
        IN  (q.listCalls > 0 /\ q.positions # <<>>) =>
              /\ \A j \in 1..(Len(q.orders) - 1) : q.orders[j].res = "ok"
              /\ \A j \in 1..(Len(q.pnl) - 1) : q.pnl[j].kind = "resolved"
              /\ (OrderRaised(q) \/ LookupRaised(q)) =>
                    /\ Done(r)
                    /\ q.status = 500
                    /\ Len(q.orders) <= Len(open)
                    /\ q.positions[q.idx] = open[Len(q.orders)]
                    /\ Cardinality(ConfirmedOrders(q)) = Len(q.orders) - failedOrders
                    /\ q.insertCalls = Cardinality(ConfirmedOrders(q))
              /\ (Done(r) /\ Len(q.orders) < Len(open)) =>
                    /\ q.status = 500
                    /\ OrderRaised(q) \/ LookupRaised(q)

C20_Witness ==
    \E r \in Requests :
        LET q == req[r] IN
        /\ Done(r)
        /\ Len(OpenPositions(q.positions)) = 2
        /\ Len(q.orders) = 1
        /\ LookupRaised(q)
        /\ q.insertCalls = 1
        /\ q.status = 500

====
